---- MODULE Spec2Model ----
(***************************************************************************)
(* Model of flow/envs/multiagent/highway.py: the observation encoders and  *)
(* the reward policies of the multi-agent highway environments.            *)
(*                                                                         *)
(* The simulator kernel (self.k.vehicle, self.k.network) is the            *)
(* environment of the model: its telemetry is the state the methods read.  *)
(* Python floats are modelled as exact rationals <<numerator, denominator>> *)
(* with a positive denominator.                                            *)
(***************************************************************************)
EXTENDS Integers, Sequences, FiniteSets, TLC

VARIABLES
    variant,      \* the environment class that was constructed
    evaluate,     \* env_params.evaluate
    net,          \* self.k.network: static metadata of the network
    k,            \* self.k.vehicle: telemetry of the vehicles present
    fail,         \* the crash flag of the current step
    rl_actions,   \* the actions handed to compute_reward in this step
    pc,           \* position in the step / in the backward pass
    obs,          \* the mapping returned by get_state()
    rewards,      \* the mapping returned by compute_reward()
    frames,       \* call stack of _veh_edge_lane_backward_pass
    returned      \* value returned by the last finished frame

vars == <<variant, evaluate, net, k, fail, rl_actions, pc, obs, rewards,
          frames, returned>>

-----------------------------------------------------------------------------
(* Bounds of the model *)

\* largest speed the simulator reports (the network's max_speed is below it)
MaxSpeedReading == 3
\* largest headway the simulator reports
MaxHeadway == 2
\* Python's recursion limit, scaled to the modelled networks
MaxDepth == 4

-----------------------------------------------------------------------------
(* Identifiers *)

RL == {"rl_0", "rl_1"}
Humans == {"human_0"}
Veh == RL \cup Humans

\* get_leader / get_follower answer "" or None when no vehicle is visible
EmptyId == ""
NoneId == "<None>"

\* the classes of the file
PO == "MultiAgentHighwayPOEnv"
LocalReward == "MultiAgentHighwayPOEnvLocalReward"
DistanceMergeInfo == "MultiAgentHighwayPOEnvDistanceMergeInfo"
DistanceMergeInfoNegative == "MultiAgentHighwayPOEnvDistanceMergeInfoNegative"
DistanceMergeInfoCollaborate == "MultiAgentHighwayPOEnvDistanceMergeInfoCollaborate"
Negative == "MultiAgentHighwayPOEnvNegative"
Collaborate == "MultiAgentHighwayPOEnvCollaborate"

Variants == {PO, LocalReward, DistanceMergeInfo, DistanceMergeInfoNegative,
             DistanceMergeInfoCollaborate, Negative, Collaborate}

\* classes that inherit get_state of MultiAgentHighwayPOEnvDistanceMergeInfo
ExtendedVariants == {DistanceMergeInfo, DistanceMergeInfoNegative,
                     DistanceMergeInfoCollaborate}

\* rl_actions is None in the warm-up steps, a mapping afterwards
ActionsNone == [none |-> TRUE]
ActionsDict == [none |-> FALSE]

\* the empty mapping {}
EmptyMap == [a \in {} |-> 0]

-----------------------------------------------------------------------------
(* Exact arithmetic for Python's floats *)

Rat(n, d) == IF d > 0 THEN <<n, d>> ELSE <<-n, -d>>
RInt(n) == <<n, 1>>
RAdd(a, b) == <<a[1] * b[2] + b[1] * a[2], a[2] * b[2]>>
RSub(a, b) == <<a[1] * b[2] - b[1] * a[2], a[2] * b[2]>>
RMul(a, b) == <<a[1] * b[1], a[2] * b[2]>>
RDivInt(a, n) == Rat(a[1], a[2] * n)
RLe(a, b) == a[1] * b[2] <= b[1] * a[2]
RLt(a, b) == a[1] * b[2] < b[1] * a[2]
REq(a, b) == a[1] * b[2] = b[1] * a[2]
RMax(a, b) == IF RLe(b, a) THEN a ELSE b
RMin(a, b) == IF RLe(a, b) THEN a ELSE b
\* np.clip(x, lo, hi)
RClip(x, lo, hi) == RMin(RMax(x, RInt(lo)), RInt(hi))

RECURSIVE SumSeq(_)
SumSeq(s) == IF s = <<>> THEN 0 ELSE Head(s) + SumSeq(Tail(s))

RECURSIVE SetToSeq(_)
\* a set of identifiers as a Python list, in a fixed order
SetToSeq(S) ==
    IF S = {} THEN <<>>
    ELSE LET x == CHOOSE y \in S : TRUE IN <<x>> \o SetToSeq(S \ {x})

\* the set of elements of a list
Elems(s) == {s[i] : i \in 1..Len(s)}

-----------------------------------------------------------------------------
(* self.k.network: the merge network the environments are trained on.      *)
(* inflow_highway -> :left -> left -> :center -> center, and the ramp      *)
(* bottom -> :center -> center. Edges whose name starts with ":" are       *)
(* junctions.                                                              *)

MergeEdges == {"inflow_highway", ":left", "left", "bottom", ":center", "center"}
Lanes == {0, 1}

MergePrev ==
    [n \in MergeEdges \X Lanes |->
        CASE n[1] = "center"  -> <<<<":center", n[2]>>>>
          [] n[1] = ":center" -> IF n[2] = 0 THEN <<<<"left", 0>>, <<"bottom", 0>>>>
                                 ELSE <<<<"left", 1>>>>
          [] n[1] = "left"    -> <<<<":left", n[2]>>>>
          [] n[1] = ":left"   -> <<<<"inflow_highway", n[2]>>>>
          [] OTHER            -> <<>>]

MergeNetwork ==
    [max_speed   |-> 2,
     length      |-> 4,
     edge_length |-> [e \in MergeEdges |-> 2],
     speed_limit |-> [e \in MergeEdges |-> IF e = "bottom" THEN 1 ELSE 2],
     edgestarts  |-> [e \in MergeEdges |->
                        CASE e = "inflow_highway" -> 0
                          [] e = ":left" -> 1
                          [] e = "left" -> 1
                          [] e = ":center" -> 2
                          [] e = "center" -> 2
                          [] OTHER -> 3],
     prev        |-> MergePrev,
     junctions   |-> {":left", ":center"}]

\* the queries of self.k.network
max_speed == net.max_speed
max_length == net.length
edge_length(edge) == net.edge_length[edge]
speed_limit(edge) == net.speed_limit[edge]
total_edgestarts_dict(edge) == net.edgestarts[edge]
prev_edge(edge, lane) == net.prev[<<edge, lane>>]
get_junction_list == net.junctions

-----------------------------------------------------------------------------
(* self.k.vehicle: k.vehicle maps each vehicle present to its readings     *)

get_ids == DOMAIN k.vehicle
get_rl_ids == {v \in DOMAIN k.vehicle : v \in RL}
get_speed(veh_id) == k.vehicle[veh_id].speed
get_leader(veh_id) == k.vehicle[veh_id].leader
get_follower(veh_id) == k.vehicle[veh_id].follower
get_headway(veh_id) == k.vehicle[veh_id].headway
get_edge(veh_id) == k.vehicle[veh_id].edge
get_lane(veh_id) == k.vehicle[veh_id].lane
get_x_by_id(veh_id) == k.vehicle[veh_id].x
\* get_position is keyed by a vehicle id; for any other key the kernel
\* answers with a value of its own (k.position_of_other)
get_position(key) ==
    IF key \in DOMAIN k.vehicle THEN k.vehicle[key].position
    ELSE k.position_of_other
get_ids_by_edge(edge) == SetToSeq({v \in DOMAIN k.vehicle : k.vehicle[v].edge = edge})

-----------------------------------------------------------------------------
(* MultiAgentHighwayPOEnv.get_state                                        *)
(* An observation is a tuple; feature i of the code is component i + 1.    *)

NotVisible(veh_id) == veh_id \in {EmptyId, NoneId}

lead_speed(rl_id) ==
    IF NotVisible(get_leader(rl_id)) THEN max_speed
    ELSE get_speed(get_leader(rl_id))

\* a slip: the headway query is made although no leader is visible
lead_head_unguarded(rl_id) == get_headway(rl_id)

lead_head(rl_id) ==
    IF NotVisible(get_leader(rl_id)) THEN max_length
    ELSE get_headway(rl_id)

follow_speed(rl_id) ==
    IF NotVisible(get_follower(rl_id)) THEN 0
    ELSE get_speed(get_follower(rl_id))

follow_head(rl_id) ==
    IF NotVisible(get_follower(rl_id)) THEN max_length
    ELSE get_headway(get_follower(rl_id))

observation(rl_id) ==
    LET this_speed == get_speed(rl_id) IN
    << Rat(this_speed, max_speed),
       Rat(lead_speed(rl_id) - this_speed, max_speed),
       Rat(lead_head(rl_id), max_length),
       Rat(this_speed - follow_speed(rl_id), max_speed),
       Rat(follow_head(rl_id), max_length) >>

get_state == [rl_id \in get_rl_ids |-> observation(rl_id)]

-----------------------------------------------------------------------------
(* MultiAgentHighwayPOEnvDistanceMergeInfo.get_state                       *)

RECURSIVE MaxOf(_)
MaxOf(s) ==
    IF Len(s) = 1 THEN s[1]
    ELSE LET m == MaxOf(Tail(s)) IN IF s[1] >= m THEN s[1] ELSE m

merge_distance ==
    LET merge_vehs == get_ids_by_edge("bottom")
        merge_dists == [i \in 1..Len(merge_vehs) |-> get_position(merge_vehs[i])]
        len_bottom == edge_length("bottom")
    IN  IF Len(merge_dists) > 0
        THEN Rat(len_bottom - MaxOf(merge_dists), len_bottom)
        ELSE RInt(1)

distance(rl_id) ==
    LET veh_x == get_x_by_id(rl_id)
        edge == get_edge(rl_id)
        center_x == total_edgestarts_dict("center")
    IN  IF edge \in {"inflow_highway", "left", "center"}
        THEN Rat(veh_x - center_x, center_x)
        ELSE RInt(1)

DistanceMergeInfo_observation(rl_id) ==
    observation(rl_id) \o
        << RClip(distance(rl_id), -1, 1), RClip(merge_distance, -1, 1) >>

DistanceMergeInfo_get_state ==
    [rl_id \in get_rl_ids |-> DistanceMergeInfo_observation(rl_id)]

\* the get_state the constructed class inherits
Env_get_state ==
    IF variant \in ExtendedVariants THEN DistanceMergeInfo_get_state
    ELSE get_state

\* get_state ends in an exception: a division by zero in the loop body
get_state_raises ==
    get_rl_ids # {} /\ (max_speed = 0 \/ max_length = 0)

\* the same for the extended encoder: the dictionary lookups and the
\* divisions before and inside the loop
DistanceMergeInfo_get_state_raises ==
    \/ "bottom" \notin DOMAIN net.edge_length
    \/ "bottom" \notin DOMAIN net.edgestarts
    \/ Len(get_ids_by_edge("bottom")) > 0 /\ edge_length("bottom") = 0
    \/ get_rl_ids # {} /\ (max_speed = 0 \/ max_length = 0)
    \/ get_rl_ids # {} /\ "center" \notin DOMAIN net.edgestarts
    \/ \E rl_id \in get_rl_ids :
          /\ get_edge(rl_id) \in {"inflow_highway", "left", "center"}
          /\ total_edgestarts_dict("center") = 0

Env_get_state_raises ==
    IF variant \in ExtendedVariants THEN DistanceMergeInfo_get_state_raises
    ELSE get_state_raises

-----------------------------------------------------------------------------
(* flow.core.rewards, imported by the file                                 *)

\* desired_velocity(env, fail): a system-level metric the simulator's state
\* determines; its value is one of the readings of the run
desired_velocity(f) == k.desired_velocity

\* average_velocity(env): the mean speed of the vehicles of the network
average_velocity ==
    LET ids == SetToSeq(get_ids)
        vel == [i \in 1..Len(ids) |-> get_speed(ids[i])]
    IN  IF Len(vel) = 0 THEN RInt(0) ELSE Rat(SumSeq(vel), Len(vel))

-----------------------------------------------------------------------------
(* MultiAgentHighwayPOEnv.compute_reward                                   *)

\* smallest acceptable time headway
t_min == 1
eta1 == RInt(1)
eta2 == RInt(0)

cost2(rl_id) ==
    LET lead_id == get_leader(rl_id) IN
    IF ~NotVisible(lead_id) /\ get_speed(rl_id) > 0
    THEN LET t_headway == RMax(Rat(get_headway(rl_id), get_speed(rl_id)), RInt(0))
         IN  RAdd(RInt(0), RMin(RDivInt(RSub(t_headway, RInt(t_min)), t_min), RInt(0)))
    ELSE RInt(0)

\* a slip: the collision branch is missing
reward_without_fail(rl_id, f) ==
    IF evaluate THEN RInt(get_speed(rl_id))
    ELSE RMax(RAdd(RMul(eta1, desired_velocity(f)), RMul(eta2, cost2(rl_id))),
              RInt(0))

\* a slip: the collision branch comes before the evaluation branch
reward_fail_first(rl_id, f) ==
    IF f THEN RInt(0)
    ELSE IF evaluate THEN RInt(get_speed(rl_id))
    ELSE RMax(RAdd(RMul(eta1, desired_velocity(f)), RMul(eta2, cost2(rl_id))),
              RInt(0))

reward(rl_id, f) ==
    IF evaluate THEN RInt(get_speed(rl_id))
    ELSE IF f THEN RInt(0)
    ELSE RMax(RAdd(RMul(eta1, desired_velocity(f)), RMul(eta2, cost2(rl_id))),
              RInt(0))

\* a slip: the loop runs over get_ids instead of get_rl_ids
compute_reward_all_ids(actions, f) ==
    IF actions.none THEN EmptyMap
    ELSE [rl_id \in get_ids |-> reward(rl_id, f)]

compute_reward(actions, f) ==
    IF actions.none THEN EmptyMap
    ELSE [rl_id \in get_rl_ids |-> reward(rl_id, f)]

-----------------------------------------------------------------------------
(* MultiAgentHighwayPOEnvLocalReward                                       *)

_veh_edge_lane(edge, lane) ==
    SelectSeq(get_ids_by_edge(edge), LAMBDA veh : get_lane(veh) = lane)

RECURSIVE _veh_edge_lane_backward_pass(_, _, _)
RECURSIVE backward_pass_loop(_, _, _, _)
\* the iterations of the for loop from the i-th predecessor on
backward_pass_loop(edge, lane, junctions, i) ==
    IF i > Len(prev_edge(edge, lane)) THEN <<>>
    ELSE LET prev == prev_edge(edge, lane)[i] IN
         (IF prev[1] \in junctions
          THEN _veh_edge_lane_backward_pass(prev[1], prev[2], junctions)
          ELSE <<>>)
         \o _veh_edge_lane(prev[1], prev[2])
         \o backward_pass_loop(edge, lane, junctions, i + 1)

_veh_edge_lane_backward_pass(edge, lane, junctions) ==
    backward_pass_loop(edge, lane, junctions, 1)

\* the reference position the vehicles of the edge are compared with
pos(rl_id) == get_position(get_edge(rl_id))

neighbours(rl_id) ==
    LET edge == get_edge(rl_id)
        lane == get_lane(rl_id)
        edge_veh == get_ids_by_edge(edge)
        junctions == get_junction_list
    IN  SelectSeq(edge_veh, LAMBDA veh :
                      get_lane(veh) = lane /\ get_position(veh) <= pos(rl_id))
        \o _veh_edge_lane_backward_pass(edge, lane, junctions)

\* the speed reading below which a speed is taken for an error value
SpeedSentinel == -100

any_sentinel(vel) == \E i \in 1..Len(vel) : vel[i] < SpeedSentinel

_compute_avgspeed_agent(rl_id, f) ==
    IF f THEN RInt(0)
    ELSE LET nb == neighbours(rl_id)
             vel == [i \in 1..Len(nb) |-> get_speed(nb[i])]
         IN  IF Len(nb) = 0 THEN RInt(0)
             ELSE IF any_sentinel(vel) THEN RInt(0)
             ELSE Rat(SumSeq(vel), Len(vel))

_compute_avgspeednormalized_agent(rl_id, f) ==
    RDivInt(_compute_avgspeed_agent(rl_id, f), speed_limit(get_edge(rl_id)))

LocalReward_compute_reward(actions, f) ==
    IF actions.none THEN EmptyMap
    ELSE [rl_id \in get_rl_ids |-> _compute_avgspeednormalized_agent(rl_id, f)]

-----------------------------------------------------------------------------
(* The constant and the collaborative reward classes                       *)

NegativeReward == Rat(-1, 10)
\* the divisor of average_velocity in the collaborative reward
VelocityScale == 30

CollaborateReward ==
    LET c_eta1 == Rat(1, 2)
        c_eta2 == Rat(1, 2)
        reward1 == RInt(-1)
        reward2 == RDivInt(average_velocity, VelocityScale)
    IN  RAdd(RMul(reward1, c_eta1), RMul(reward2, c_eta2))

DistanceMergeInfoNegative_compute_reward(actions, f) ==
    IF actions.none THEN EmptyMap
    ELSE [rl_id \in get_rl_ids |-> NegativeReward]

DistanceMergeInfoCollaborate_compute_reward(actions, f) ==
    IF actions.none THEN EmptyMap
    ELSE [rl_id \in get_rl_ids |-> CollaborateReward]

\* a slip: the warm-up test is missing
Negative_compute_reward_no_warmup(actions, f) ==
    [rl_id \in get_rl_ids |-> NegativeReward]

Negative_compute_reward(actions, f) ==
    IF actions.none THEN EmptyMap
    ELSE [rl_id \in get_rl_ids |-> NegativeReward]

\* a slip: fail is handed on to average_velocity, which then answers 0
Collaborate_compute_reward_fail(actions, f) ==
    IF actions.none THEN EmptyMap
    ELSE [rl_id \in get_rl_ids |->
            IF f THEN RMul(RInt(-1), Rat(1, 2)) ELSE CollaborateReward]

Collaborate_compute_reward(actions, f) ==
    IF actions.none THEN EmptyMap
    ELSE [rl_id \in get_rl_ids |-> CollaborateReward]

\* the compute_reward the constructed class defines or inherits
Env_compute_reward(actions, f) ==
    CASE variant = LocalReward -> LocalReward_compute_reward(actions, f)
      [] variant = DistanceMergeInfoNegative ->
            DistanceMergeInfoNegative_compute_reward(actions, f)
      [] variant = DistanceMergeInfoCollaborate ->
            DistanceMergeInfoCollaborate_compute_reward(actions, f)
      [] variant = Negative -> Negative_compute_reward(actions, f)
      [] variant = Collaborate -> Collaborate_compute_reward(actions, f)
      [] OTHER -> compute_reward(actions, f)

-----------------------------------------------------------------------------
(* The simulator and the step of the environment.                          *)
(* A universe U fixes what a run may construct and what the simulator may  *)
(* report: U.variants, U.evaluates, U.nets, U.readings[v] (the readings of *)
(* vehicle v), U.desired, U.other_positions, U.fails, U.actions.           *)

\* the ranges of the readings of one vehicle
Reading(speeds, leaders, followers, headways, edges, lanes, positions, xs) ==
    [speed |-> speeds, leader |-> leaders, follower |-> followers,
     headway |-> headways, edge |-> edges, lane |-> lanes,
     position |-> positions, x |-> xs]

\* the readings within ranges R
Readings(R) ==
    [speed : R.speed, leader : R.leader, follower : R.follower,
     headway : R.headway, edge : R.edge, lane : R.lane,
     position : R.position, x : R.x]

\* the readings within R that differ from r in one query's answer
OneChanged(R, r) ==
    {[r EXCEPT !.speed = v] : v \in R.speed}
    \cup {[r EXCEPT !.leader = v] : v \in R.leader}
    \cup {[r EXCEPT !.follower = v] : v \in R.follower}
    \cup {[r EXCEPT !.headway = v] : v \in R.headway}
    \cup {[r EXCEPT !.edge = v] : v \in R.edge}
    \cup {[r EXCEPT !.lane = v] : v \in R.lane}
    \cup {[r EXCEPT !.position = v] : v \in R.position}
    \cup {[r EXCEPT !.x = v] : v \in R.x}

\* a leader or a follower is a vehicle present, or not visible
Consistent(v, r, present) ==
    /\ r.leader \in {EmptyId, NoneId} \cup (present \ {v})
    /\ r.follower \in {EmptyId, NoneId} \cup (present \ {v})

EnvInit(U) ==
    /\ variant \in U.variants
    /\ evaluate \in U.evaluates
    /\ net \in U.nets
    /\ k \in [vehicle : {EmptyMap}, desired_velocity : U.desired,
              position_of_other : U.other_positions]
    /\ fail = FALSE
    /\ rl_actions \in U.actions
    /\ pc = "sim"
    /\ obs = EmptyMap
    /\ rewards = EmptyMap
    /\ frames = <<>>
    /\ returned = <<>>

\* the simulator inserts vehicle v
VehicleEnters(U, v) ==
    /\ pc = "sim"
    /\ v \in DOMAIN U.readings
    /\ v \notin DOMAIN k.vehicle
    /\ \E r \in Readings(U.readings[v]) :
         /\ Consistent(v, r, DOMAIN k.vehicle)
         /\ k' = [k EXCEPT !.vehicle =
                    [w \in DOMAIN k.vehicle \cup {v} |->
                        IF w = v THEN r ELSE k.vehicle[w]]]
    /\ UNCHANGED <<variant, evaluate, net, fail, rl_actions, pc, obs, rewards,
                   frames, returned>>

\* the simulator removes vehicle v; nobody sees it any more
VehicleLeaves(v) ==
    /\ pc = "sim"
    /\ v \in DOMAIN k.vehicle
    /\ k' = [k EXCEPT !.vehicle =
               [w \in DOMAIN k.vehicle \ {v} |->
                   [k.vehicle[w] EXCEPT
                       !.leader = IF @ = v THEN EmptyId ELSE @,
                       !.follower = IF @ = v THEN EmptyId ELSE @]]]
    /\ UNCHANGED <<variant, evaluate, net, fail, rl_actions, pc, obs, rewards,
                   frames, returned>>

\* the simulator advances vehicle v: one of its readings changes
VehicleMoves(U, v) ==
    /\ pc = "sim"
    /\ v \in DOMAIN k.vehicle
    /\ v \in DOMAIN U.readings
    /\ \E r \in OneChanged(U.readings[v], k.vehicle[v]) :
         /\ Consistent(v, r, DOMAIN k.vehicle)
         /\ k' = [k EXCEPT !.vehicle[v] = r]
    /\ UNCHANGED <<variant, evaluate, net, fail, rl_actions, pc, obs, rewards,
                   frames, returned>>

\* the simulator's system-level values change
SimulatorReports(U) ==
    /\ pc = "sim"
    /\ \E d \in U.desired, p \in U.other_positions :
         k' = [k EXCEPT !.desired_velocity = d, !.position_of_other = p]
    /\ UNCHANGED <<variant, evaluate, net, fail, rl_actions, pc, obs, rewards,
                   frames, returned>>

\* the simulation steps of this environment step are over: crash or not
CheckCollision(U) ==
    /\ pc = "sim"
    /\ fail' \in U.fails
    /\ pc' = "checked"
    /\ UNCHANGED <<variant, evaluate, net, k, rl_actions, obs, rewards,
                   frames, returned>>

GetState ==
    /\ pc = "checked"
    /\ IF Env_get_state_raises
       THEN pc' = "error" /\ obs' = obs
       ELSE pc' = "state" /\ obs' = Env_get_state
    /\ UNCHANGED <<variant, evaluate, net, k, fail, rl_actions, rewards,
                   frames, returned>>

ComputeReward ==
    /\ pc = "state"
    /\ rewards' = Env_compute_reward(rl_actions, fail)
    /\ pc' = "reward"
    /\ UNCHANGED <<variant, evaluate, net, k, fail, rl_actions, obs,
                   frames, returned>>

\* the next step begins with the actions the harness hands over
Step(U) ==
    /\ pc = "reward"
    /\ rl_actions' \in U.actions
    /\ fail' = FALSE
    /\ obs' = EmptyMap
    /\ rewards' = EmptyMap
    /\ pc' = "sim"
    /\ UNCHANGED <<variant, evaluate, net, k, frames, returned>>

EnvNext(U) ==
    \/ \E v \in Veh : VehicleEnters(U, v)
    \/ \E v \in Veh : VehicleLeaves(v)
    \/ \E v \in Veh : VehicleMoves(U, v)
    \/ SimulatorReports(U)
    \/ CheckCollision(U)
    \/ GetState
    \/ ComputeReward
    \/ Step(U)

-----------------------------------------------------------------------------
(* Spec: every class, with and without evaluation mode, warm-up steps and  *)
(* crashes, agents entering and leaving                                    *)

NoNeighbour == {EmptyId}

KeyUniverse ==
    [variants  |-> Variants,
     evaluates |-> BOOLEAN,
     nets      |-> {MergeNetwork},
     readings  |->
        [v \in Veh |->
            IF v \in RL
            THEN Reading({0, 1, MaxSpeedReading}, {EmptyId, "human_0"}, NoNeighbour,
                         {1}, {"center"}, {0}, {1}, {3})
            ELSE Reading({0, MaxSpeedReading}, NoNeighbour, NoNeighbour,
                         {1}, {"left", "bottom"}, {0}, {1}, {2})],
     desired   |-> {RInt(0), Rat(1, 2)},
     other_positions |-> {-1001},
     fails     |-> BOOLEAN,
     actions   |-> {ActionsNone, ActionsDict}]

Init == EnvInit(KeyUniverse)
Next == EnvNext(KeyUniverse)
Spec == Init /\ [][Next]_vars

-----------------------------------------------------------------------------
(* Claims checked under Spec                                               *)

StateReturned == pc \in {"state", "reward"}
RewardReturned == pc = "reward"
BaseReward == variant \in {PO, DistanceMergeInfo}

\* C1 as stated: in every step and every class, the keys of get_state()
\* and the keys of compute_reward(actions, fail) are exactly get_rl_ids.
C1_KeysAlways ==
    /\ StateReturned => DOMAIN obs = get_rl_ids
    /\ RewardReturned => DOMAIN rewards = get_rl_ids

\* C1 amended: the keys of get_state() are exactly get_rl_ids in every step;
\* the keys of compute_reward(actions, fail) are exactly get_rl_ids in every
\* step whose actions are not None.
C1_Keys ==
    /\ StateReturned => DOMAIN obs = get_rl_ids
    /\ RewardReturned /\ ~rl_actions.none => DOMAIN rewards = get_rl_ids

C1_Witness ==
    /\ RewardReturned /\ ~rl_actions.none
    /\ DOMAIN k.vehicle = {"rl_1", "human_0"}
    /\ DOMAIN obs = {"rl_1"} /\ DOMAIN rewards = {"rl_1"}

\* C3 as stated: base reward, actions not None, fail set: every agent's
\* reward is 0, whatever the configuration.
C3_FailZeroAlways ==
    RewardReturned /\ BaseReward /\ ~rl_actions.none /\ fail =>
        /\ DOMAIN rewards = get_rl_ids
        /\ \A a \in get_rl_ids : REq(rewards[a], RInt(0))

\* C3 amended: base reward, evaluation mode off, actions not None, fail set:
\* every agent's reward is 0.
C3_FailZero ==
    RewardReturned /\ BaseReward /\ ~evaluate /\ ~rl_actions.none /\ fail =>
        /\ DOMAIN rewards = get_rl_ids
        /\ \A a \in get_rl_ids : REq(rewards[a], RInt(0))

C3_Witness ==
    /\ RewardReturned /\ variant = PO /\ ~evaluate /\ ~rl_actions.none /\ fail
    /\ get_rl_ids = RL
    /\ RLt(RInt(0), k.desired_velocity)
    /\ \A a \in RL : get_speed(a) > 0 /\ rewards[a] = RInt(0)

\* C6: compute_reward(None, fail) returns the empty mapping in every class,
\* whatever fail and the agents present; get_state() returns the empty
\* mapping when get_rl_ids is empty; neither ends in an exception.
C6_EmptyMappings ==
    /\ pc # "error"
    /\ RewardReturned /\ rl_actions.none => rewards = EmptyMap
    /\ StateReturned /\ get_rl_ids = {} => obs = EmptyMap

C6_Witness ==
    /\ RewardReturned /\ rl_actions.none /\ fail
    /\ get_rl_ids = RL
    /\ variant = LocalReward
    /\ rewards = EmptyMap

\* C7: the constant-reward classes ignore the fail flag: with actions not
\* None the negative classes return -0.1 for every agent, the collaborative
\* classes return -0.5 + 0.5 * (average_velocity / 30) for every agent, and
\* the same telemetry with the other value of fail gives the same mapping.
C7_FailureAgnostic ==
    RewardReturned /\ ~rl_actions.none =>
        /\ variant \in {Negative, DistanceMergeInfoNegative} =>
            /\ DOMAIN rewards = get_rl_ids
            /\ \A a \in get_rl_ids : REq(rewards[a], Rat(-1, 10))
            /\ rewards = Env_compute_reward(rl_actions, ~fail)
        /\ variant \in {Collaborate, DistanceMergeInfoCollaborate} =>
            /\ DOMAIN rewards = get_rl_ids
            /\ \A a \in get_rl_ids :
                 REq(rewards[a],
                     RAdd(Rat(-1, 2),
                          RMul(Rat(1, 2), RDivInt(average_velocity, 30))))
            /\ \A a, b \in get_rl_ids : rewards[a] = rewards[b]
            /\ rewards = Env_compute_reward(rl_actions, ~fail)

C7_Witness ==
    /\ RewardReturned /\ ~rl_actions.none /\ fail
    /\ variant = Collaborate
    /\ get_rl_ids = RL
    /\ get_speed("rl_0") # get_speed("rl_1")
    /\ RLt(RInt(0), average_velocity)

\* C8: base reward, evaluation mode on, actions not None: every agent's
\* reward is its own speed, whatever fail and the other vehicles.
C8_EvaluateSpeed ==
    RewardReturned /\ BaseReward /\ evaluate /\ ~rl_actions.none =>
        /\ DOMAIN rewards = get_rl_ids
        /\ \A a \in get_rl_ids : rewards[a] = RInt(get_speed(a))

C8_Witness ==
    /\ RewardReturned /\ variant = PO /\ evaluate /\ ~rl_actions.none /\ fail
    /\ get_rl_ids = RL
    /\ get_speed("rl_0") = MaxSpeedReading /\ get_speed("rl_1") = 1
    /\ rewards["rl_0"] = RInt(MaxSpeedReading)

-----------------------------------------------------------------------------
(* SpecObs: the two observation encoders on one agent with rich readings   *)
(* and one other vehicle that may lead it, follow it and use the ramp      *)

ObsUniverse ==
    [variants  |-> {PO, DistanceMergeInfo},
     evaluates |-> {FALSE},
     nets      |-> {MergeNetwork},
     readings  |->
        [v \in {"rl_0", "human_0"} |->
            IF v \in RL
            THEN Reading(0..MaxSpeedReading, {EmptyId, NoneId, "human_0"},
                         {EmptyId, NoneId, "human_0"}, 0..MaxHeadway,
                         {"left", "bottom"}, {0}, {0, 3}, {0, 5})
            ELSE Reading({0, MaxSpeedReading}, NoNeighbour, NoNeighbour,
                         {1, MaxHeadway}, {"center", "bottom"}, {0}, {0, 3}, {0})],
     desired   |-> {RInt(0)},
     other_positions |-> {-1001},
     fails     |-> {FALSE},
     actions   |-> {ActionsDict}]

InitObs == EnvInit(ObsUniverse)
NextObs == EnvNext(ObsUniverse)
SpecObs == InitObs /\ [][NextObs]_vars

\* C2 as stated: for an agent whose leader query answers "" or None, feature
\* 1 (lead speed) of its observation is 0 and feature 2 (lead headway) is 1.0.
C2_NoLeaderZero ==
    StateReturned =>
        \A a \in get_rl_ids : NotVisible(get_leader(a)) =>
            /\ REq(obs[a][2], RInt(0))
            /\ REq(obs[a][3], RInt(1))

\* C2 amended: for an agent whose leader query answers "" or None, feature 1
\* of its observation is (max_speed - own speed) / max_speed, which is 0 only
\* at own speed = max_speed, and feature 2 is 1.0, whatever the other
\* vehicles' readings.
C2_NoLeader ==
    StateReturned =>
        \A a \in get_rl_ids : NotVisible(get_leader(a)) =>
            /\ REq(obs[a][2], Rat(net.max_speed - get_speed(a), net.max_speed))
            /\ REq(obs[a][3], RInt(1))

C2_Witness ==
    /\ StateReturned
    /\ "rl_0" \in DOMAIN obs /\ "human_0" \in DOMAIN k.vehicle
    /\ get_leader("rl_0") = NoneId
    /\ get_follower("rl_0") = "human_0"
    /\ get_speed("rl_0") = 1 /\ get_headway("rl_0") = 1
    /\ get_speed("human_0") = MaxSpeedReading
    /\ obs["rl_0"][3] = <<net.length, net.length>>

\* C5: in the classes with the 7-feature encoder every component of every
\* observation lies in [-1, 1], the bounds of the declared observation space.
C5_ObservationInBox ==
    StateReturned /\ variant \in ExtendedVariants =>
        \A a \in get_rl_ids :
            /\ Len(obs[a]) = 7
            /\ \A i \in 1..7 : RLe(RInt(-1), obs[a][i]) /\ RLe(obs[a][i], RInt(1))

\* what the code does guarantee: the two merge features are clipped
MergeFeaturesInBox ==
    StateReturned /\ variant \in ExtendedVariants =>
        \A a \in get_rl_ids :
            /\ Len(obs[a]) = 7
            /\ \A i \in 6..7 : RLe(RInt(-1), obs[a][i]) /\ RLe(obs[a][i], RInt(1))

-----------------------------------------------------------------------------
(* SpecLocal: the local-neighbourhood reward on the merge network, with    *)
(* vehicles on the agent's edge and upstream of it, and speeds that may be *)
(* the simulator's error value -1001                                       *)

LocalUniverse ==
    [variants  |-> {LocalReward},
     evaluates |-> {FALSE},
     nets      |-> {MergeNetwork},
     readings  |->
        [v \in Veh |->
            CASE v = "rl_0" ->
                    Reading({-1001, 1, 2}, NoNeighbour, NoNeighbour, {1},
                            {"center"}, Lanes, {0, 1}, {3})
              [] v = "rl_1" ->
                    Reading({1, MaxSpeedReading}, NoNeighbour, NoNeighbour, {1},
                            {"center", ":center"}, {0}, {0, 1}, {3})
              [] OTHER ->
                    Reading({-1001, 2}, NoNeighbour, NoNeighbour, {1},
                            {"left", "bottom", "center"}, Lanes, {1}, {2})],
     desired   |-> {RInt(0)},
     other_positions |-> {-1001, 0, 1},
     fails     |-> BOOLEAN,
     actions   |-> {ActionsDict}]

InitLocal == EnvInit(LocalUniverse)
NextLocal == EnvNext(LocalUniverse)
SpecLocal == InitLocal /\ [][NextLocal]_vars

\* the vehicles the reward is meant to average: those of the agent's edge and
\* lane at or behind the agent's own position, the agent included, and those
\* the backward pass collects
behind_or_at(rl_id) ==
    SelectSeq(get_ids_by_edge(get_edge(rl_id)), LAMBDA veh :
                  /\ get_lane(veh) = get_lane(rl_id)
                  /\ k.vehicle[veh].position <= k.vehicle[rl_id].position)
    \o _veh_edge_lane_backward_pass(get_edge(rl_id), get_lane(rl_id),
                                    get_junction_list)

SpeedsOf(vehs) == [i \in 1..Len(vehs) |-> get_speed(vehs[i])]

NoSentinelSpeed == \A v \in get_ids : get_speed(v) >= SpeedSentinel

\* C4: local reward, fail not set, no sentinel speed: an agent's reward is
\* the mean speed of the vehicles of its edge and lane at or behind its own
\* position (itself included) and of the vehicles of the backward pass,
\* divided by the speed limit of its edge.
C4_LocalMean ==
    RewardReturned /\ ~rl_actions.none /\ ~fail /\ NoSentinelSpeed =>
        \A a \in get_rl_ids :
            /\ Len(behind_or_at(a)) > 0
            /\ REq(rewards[a],
                   Rat(SumSeq(SpeedsOf(behind_or_at(a))),
                       Len(behind_or_at(a)) * speed_limit(get_edge(a))))

\* C9: local reward: an agent's reward is 0 when fail is set, when the set of
\* vehicles at or behind it (with the backward pass) is empty, and when one of
\* these vehicles reports a speed below -100.
C9_ZeroCases ==
    RewardReturned /\ ~rl_actions.none =>
        \A a \in get_rl_ids :
            (\/ fail
             \/ Len(behind_or_at(a)) = 0
             \/ any_sentinel(SpeedsOf(behind_or_at(a))))
            => REq(rewards[a], RInt(0))

\* what the code does guarantee: the three cases, of the vehicles it collects
ZeroCasesOfCollected ==
    RewardReturned /\ ~rl_actions.none =>
        /\ DOMAIN rewards = get_rl_ids
        /\ \A a \in get_rl_ids :
            (\/ fail
             \/ Len(neighbours(a)) = 0
             \/ any_sentinel(SpeedsOf(neighbours(a))))
            => REq(rewards[a], RInt(0))

-----------------------------------------------------------------------------
(* SpecBackward: _veh_edge_lane_backward_pass step by step, with its call  *)
(* stack, on every network of three edges; one vehicle on every lane of    *)
(* every edge shows which lanes a pass has collected.                      *)
(* A frame is [edge, lane, i, called, veh]: the arguments, the index of    *)
(* the loop in prev_edge(edge, lane), whether the recursive call of this   *)
(* iteration is under way, and the local list veh.                         *)

BackwardEdges == {"e0", "e1", "e2"}

BackwardNetworks ==
    { [max_speed   |-> 2,
       length      |-> 4,
       edge_length |-> [e \in BackwardEdges |-> 2],
       speed_limit |-> [e \in BackwardEdges |-> 2],
       edgestarts  |-> [e \in BackwardEdges |-> 0],
       prev        |-> [n \in BackwardEdges \X Lanes |->
                          LET es == SetToSeq(pe[n[1]]) IN
                          [i \in 1..Len(es) |->
                              <<es[i], IF shift THEN 1 - n[2] ELSE n[2]>>]],
       junctions   |-> js] :
      pe \in [BackwardEdges -> SUBSET BackwardEdges],
      js \in SUBSET BackwardEdges,
      shift \in BOOLEAN }

BackwardVehicles ==
    [n \in BackwardEdges \X Lanes |->
        [speed |-> 1, leader |-> EmptyId, follower |-> EmptyId, headway |-> 1,
         edge |-> n[1], lane |-> n[2], position |-> 0, x |-> 0]]

Frame(edge, lane) ==
    [edge |-> edge, lane |-> lane, i |-> 1, called |-> FALSE, veh |-> <<>>]

InitBackward ==
    /\ variant = LocalReward
    /\ evaluate = FALSE
    /\ net \in BackwardNetworks
    /\ k = [vehicle |-> BackwardVehicles, desired_velocity |-> RInt(0),
            position_of_other |-> -1001]
    /\ fail = FALSE
    /\ rl_actions = ActionsDict
    /\ obs = EmptyMap
    /\ rewards = EmptyMap
    /\ pc = "call"
    /\ \E lane \in Lanes : frames = <<Frame("e0", lane)>>
    /\ returned = <<>>

Top == frames[Len(frames)]
\* the predecessor the loop of frame f is at
PrevAt(f) == prev_edge(f.edge, f.lane)[f.i]
InLoop(f) == f.i <= Len(prev_edge(f.edge, f.lane))

\* a slip: the pass recurses through every predecessor
BP_Recurse_every_edge ==
    /\ pc = "call"
    /\ InLoop(Top)
    /\ ~Top.called
    /\ IF Len(frames) >= MaxDepth
       THEN pc' = "overflow" /\ frames' = frames
       ELSE /\ pc' = pc
            /\ frames' = Append([frames EXCEPT ![Len(frames)].called = TRUE],
                                Frame(PrevAt(Top)[1], PrevAt(Top)[2]))
    /\ UNCHANGED <<variant, evaluate, net, k, fail, rl_actions, obs, rewards,
                   returned>>

\* prev_edge in junctions: the recursive call; past the recursion limit the
\* interpreter raises RecursionError
BP_Recurse ==
    /\ pc = "call"
    /\ InLoop(Top)
    /\ PrevAt(Top)[1] \in get_junction_list
    /\ ~Top.called
    /\ IF Len(frames) >= MaxDepth
       THEN pc' = "overflow" /\ frames' = frames
       ELSE /\ pc' = pc
            /\ frames' = Append([frames EXCEPT ![Len(frames)].called = TRUE],
                                Frame(PrevAt(Top)[1], PrevAt(Top)[2]))
    /\ UNCHANGED <<variant, evaluate, net, k, fail, rl_actions, obs, rewards,
                   returned>>

\* prev_edge not in junctions: only its vehicles are added
BP_Collect ==
    /\ pc = "call"
    /\ InLoop(Top)
    /\ PrevAt(Top)[1] \notin get_junction_list
    /\ frames' = [frames EXCEPT
                    ![Len(frames)].veh =
                        @ \o _veh_edge_lane(PrevAt(Top)[1], PrevAt(Top)[2]),
                    ![Len(frames)].i = @ + 1]
    /\ UNCHANGED <<variant, evaluate, net, k, fail, rl_actions, pc, obs,
                   rewards, returned>>

\* the loop of the top frame is over: return veh; the caller adds it and the
\* vehicles of the junction edge, and goes on with its loop
BP_Return ==
    /\ pc = "call"
    /\ ~InLoop(Top)
    /\ IF Len(frames) = 1
       THEN /\ returned' = Top.veh
            /\ frames' = <<>>
            /\ pc' = "done"
       ELSE LET n == Len(frames) - 1
                caller == frames[n]
            IN  /\ frames' = [SubSeq(frames, 1, n) EXCEPT
                                ![n].veh = @ \o Top.veh
                                             \o _veh_edge_lane(PrevAt(caller)[1],
                                                               PrevAt(caller)[2]),
                                ![n].i = @ + 1,
                                ![n].called = FALSE]
                /\ UNCHANGED <<returned, pc>>
    /\ UNCHANGED <<variant, evaluate, net, k, fail, rl_actions, obs, rewards>>

NextBackward == BP_Recurse \/ BP_Collect \/ BP_Return

\* the interpreter runs the call to its end
SpecBackward == InitBackward /\ [][NextBackward]_vars /\ WF_vars(NextBackward)

\* the junction edges among the predecessors of edge e, on any lane
JunctionPrev(e) ==
    {p \in get_junction_list :
        \E lane \in Lanes : p \in {q[1] : q \in Elems(prev_edge(e, lane))}}

RECURSIVE JunctionReach(_, _)
\* the junction edges reached from the edges S in at most n steps backward
JunctionReach(S, n) ==
    IF n = 0 THEN {}
    ELSE LET step == UNION {JunctionPrev(e) : e \in S}
         IN  step \cup JunctionReach(step, n - 1)

\* no junction edge is reachable from itself through junction edges
JunctionsAcyclic ==
    \A e \in get_junction_list :
        e \notin JunctionReach({e}, Cardinality(DOMAIN net.edge_length))

\* C10: on a network whose junction edges form no cycle the backward pass
\* terminates (it returns, it does not exhaust the stack); a call is made
\* only for a predecessor edge that is a junction; for a predecessor edge
\* that is not a junction the vehicles of its lane are added and the depth
\* of the recursion stays.
C10_BackwardPass ==
    /\ JunctionsAcyclic => <>(pc = "done")
    /\ [](JunctionsAcyclic => pc # "overflow")
    /\ [][Len(frames') > Len(frames) =>
            /\ Len(frames') = Len(frames) + 1
            /\ frames'[Len(frames')].edge \in get_junction_list
            /\ <<frames'[Len(frames')].edge, frames'[Len(frames')].lane>>
                  = PrevAt(Top)]_vars
    /\ [][(pc = "call" /\ InLoop(Top)
             /\ PrevAt(Top)[1] \notin get_junction_list) =>
            /\ Len(frames') = Len(frames)
            /\ frames'[Len(frames')].veh =
                  Top.veh \o _veh_edge_lane(PrevAt(Top)[1], PrevAt(Top)[2])
            /\ frames'[Len(frames')].i = Top.i + 1]_vars

\* a pass that went two calls deep and returned
C10_Witness ==
    /\ pc = "done"
    /\ JunctionsAcyclic
    /\ get_junction_list = {"e1", "e2"}
    /\ Elems(prev_edge("e0", 0)) = {<<"e1", 1>>}
    /\ Elems(prev_edge("e1", 1)) = {<<"e0", 0>>, <<"e2", 0>>}
    /\ prev_edge("e2", 0) = <<>>
    /\ Len(returned) = 3

\* the stepwise pass returns what the recursive definition gives
BackwardPassAgrees ==
    pc = "done" /\ JunctionsAcyclic =>
        \E lane \in Lanes :
            returned = _veh_edge_lane_backward_pass("e0", lane, get_junction_list)

====
